---- MODULE Spec2Model ----
(***************************************************************************)
(* Model of api/scanner/scanner.go of photoview: the per-user scan that    *)
(* walks the photo root breadth first, upserts one album per directory,    *)
(* hands supported images to ProcessImage, and finally deletes the albums  *)
(* of the owner whose path was not visited (cleanupCache).                 *)
(*                                                                         *)
(* Paths are sequences of names: <<"r","a">> is "r/a", <<>> is ".".        *)
(* A nil *int (parentId) is the empty set, a non-nil one a singleton.      *)
(***************************************************************************)
EXTENDS Integers, Sequences, FiniteSets, TLC

VARIABLES
    fs,             \* the filesystem: [dirs, unreadable, files]
    albums,         \* rows of table album
    photos,         \* rows written by ProcessImage
    next_album_id,  \* AUTO_INCREMENT counter of album.album_id
    image_cache,    \* album ids that have a folder ./image-cache/<id>
    run,            \* run[i]: the locals of the i-th `go scan(...)`
    launched,       \* number of scan goroutines started so far
    ret,            \* the last ScanUser call: its argument, and whether it returned an error
    faults,         \* injected database / RemoveAll failures so far
    fsChanges,      \* filesystem changes made between scans so far
    stable          \* a scan has completed and the tree has not changed since

vars == <<fs, albums, photos, next_album_id, image_cache, run, launched, ret,
          faults, fsChanges, stable>>

-----------------------------------------------------------------------------
(* Bounds of the model *)

\* directories that start out holding a file or being unreadable
MaxMarks == 2
\* injected failures of database calls and of os.RemoveAll
MaxFaults == 1
\* scan runs started in one behaviour
MaxScans == 2
\* scan goroutines alive at the same time
MaxRuns == 2
\* filesystem changes made between scans in one behaviour
MaxFsChanges == 1

-----------------------------------------------------------------------------
(* The directory tree and the users *)

Root == <<"r">>

Dirs == { <<"r">>, <<"r", "a">>, <<"r", "a", "c">>, <<"r", "a", "c", "e">>,
          <<"r", "a", "d">> }

\* ioutil.ReadDir returns the entries sorted by file name
NameOrder == <<"a", "c", "d", "e", "f">>

FileName == "f"

ScanningUser == [UserID |-> "u1", Username |-> "alice", RootPath |-> Root]

OtherUser == [UserID |-> "u2", Username |-> "bob", RootPath |-> Root]

UserTable == {ScanningUser, OtherUser}

\* the ids a trigger caller passes to ScanUser: one that resolves, one that does not
UserIds == {"u1", "u9"}

Runs == 1 .. MaxRuns

\* what a file of the tree can hold: the MIME type its header sniffs as, or a
\* file that os.Open rejects, or an empty file (file.Read returns io.EOF)
FileKinds == {"image/jpeg", "image/x-canon-cr2", "image/gif", "application/pdf",
              "unopenable", "empty"}

-----------------------------------------------------------------------------
(* package path *)

Clean(p) == SelectSeq(p, LAMBDA n : n # "." /\ n # "")

Dir(p) == SubSeq(Clean(p), 1, Len(Clean(p)) - 1)

Base(p) == IF Clean(p) = <<>> THEN "." ELSE Clean(p)[Len(Clean(p))]

Join(p, name) == Clean(Append(p, name))

IsUnder(p, q) == Len(q) <= Len(p) /\ SubSeq(p, 1, Len(q)) = q

-----------------------------------------------------------------------------
(* Finite maps *)

EmptyMap == <<>>

Put(m, k, v) == [x \in (DOMAIN m) \cup {k} |-> IF x = k THEN v ELSE m[x]]

Count(m, k) == IF k \in DOMAIN m THEN m[k] ELSE 0

\* F(v) with v computed once, as a call whose result is kept in a local
Bind(v, F(_)) == CHOOSE y \in {F(x) : x \in {v}} : TRUE

-----------------------------------------------------------------------------
(* scanner_cache *)

\* Faulty variant: the entry is not stored.
insert_photo_type_Drops(cache, path, content_type) == cache

insert_photo_type(cache, path, content_type) == Put(cache, path, content_type)

\* Faulty variant: the lookup never finds an entry.
get_photo_type_AlwaysMiss(cache, path) == {}

get_photo_type(cache, path) == IF path \in DOMAIN cache THEN {cache[path]} ELSE {}

\* Faulty variant: the opposite verdict is stored.
insert_album_path_Negated(cache, path, contains_photo) == Put(cache, path, ~contains_photo)

insert_album_path(cache, path, contains_photo) == Put(cache, path, contains_photo)

RECURSIVE insert_album_paths_loop(_, _, _, _)
insert_album_paths_loop(cache, curr_path, root_path, contains_photo) ==
    IF curr_path # root_path \/ curr_path = <<>>
    THEN insert_album_paths_loop(insert_album_path(cache, curr_path, contains_photo),
                                 Dir(curr_path), root_path, contains_photo)
    ELSE cache

insert_album_paths(cache, end_path, root, contains_photo) ==
    insert_album_paths_loop(cache, Clean(end_path), Clean(root), contains_photo)

album_contains_photo(cache, path) == IF path \in DOMAIN cache THEN {cache[path]} ELSE {}

-----------------------------------------------------------------------------
(* The filesystem boundary *)

CanList(d) == d \in fs.dirs /\ d \notin fs.unreadable

\* ioutil.ReadDir(d) of a listable directory: its entries, sorted by name
ReadDir(d) ==
    LET all == [i \in 1 .. Len(NameOrder) |->
                  [name |-> NameOrder[i], isDir |-> NameOrder[i] # FileName]]
    IN  SelectSeq(all, LAMBDA it : IF it.isDir THEN Join(d, it.name) \in fs.dirs
                                   ELSE fs.files[d] # "none")

FileContent(path) == fs.files[Dir(path)]

SupportedMimetypes == <<"image/jpeg", "image/png", "image/tiff", "image/webp",
                        "image/x-canon-cr2", "image/bmp">>

WebMimetypes == <<"image/jpeg", "image/png", "image/webp", "image/bmp">>

\* the types filetype.Image recognises; any other header is ErrUnknownBuffer
ImageMatchers == {"image/jpeg", "image/jp2", "image/png", "image/gif", "image/webp",
                  "image/x-canon-cr2", "image/tiff", "image/bmp", "image/vnd.ms-photo",
                  "image/vnd.adobe.photoshop", "image/vnd.microsoft.icon", "image/heif",
                  "image/vnd.dwg"}

\* Faulty variant: the allow-list is not consulted, any sniffed image type passes.
MatchSupported_AnyImage(mime, i) == {mime}

RECURSIVE MatchSupported(_, _)
MatchSupported(mime, i) ==
    IF i > Len(SupportedMimetypes) THEN {}
    ELSE IF SupportedMimetypes[i] = mime THEN {SupportedMimetypes[i]}
    ELSE MatchSupported(mime, i + 1)

\* st = [photo_type, album_path, calls, io, ls]: the two caches of one scan, and
\* the number of isPathImage calls and of open+read rounds per file, and of
\* probe listings per directory
isPathImage(path, st) ==
    IF get_photo_type(st.photo_type, path) # {}
    THEN [res |-> TRUE, st |-> [st EXCEPT !.calls = Put(@, path, Count(@, path) + 1)]]
    ELSE LET st1  == [st EXCEPT !.calls = Put(@, path, Count(@, path) + 1),
                                !.io = Put(@, path, Count(@, path) + 1)]
             head == FileContent(path)
         IN  IF head = "unopenable" THEN [res |-> FALSE, st |-> st1]
             ELSE IF head = "empty" THEN [res |-> FALSE, st |-> st1]
             ELSE IF head \notin ImageMatchers THEN [res |-> FALSE, st |-> st1]
             ELSE LET hit == MatchSupported(head, 1)
                  IN  IF hit # {}
                      THEN [res |-> TRUE,
                            st  |-> [st1 EXCEPT !.photo_type =
                                       insert_photo_type(@, path, CHOOSE m \in hit : TRUE)]]
                      ELSE [res |-> FALSE, st |-> st1]

-----------------------------------------------------------------------------
(* directoryContainsPhotos *)

RECURSIVE ProbeItems(_, _, _, _, _, _)
ProbeItems(dirContent, i, dirPath, rootPath, scanQueue, st) ==
    IF i > Len(dirContent)
    THEN [found |-> FALSE, scanQueue |-> scanQueue, st |-> st]
    ELSE LET filePath == Join(dirPath, dirContent[i].name)
         IN  IF dirContent[i].isDir
             THEN ProbeItems(dirContent, i + 1, dirPath, rootPath,
                             Append(scanQueue, filePath), st)
             ELSE Bind(isPathImage(filePath, st), LAMBDA c :
                      IF c.res
                      THEN [found     |-> TRUE,
                            scanQueue |-> scanQueue,
                            st        |-> [c.st EXCEPT !.album_path =
                                             insert_album_paths(@, dirPath, rootPath, TRUE)]]
                      ELSE ProbeItems(dirContent, i + 1, dirPath, rootPath, scanQueue, c.st))

\* Faulty variant: only the first directory of the list, the probe's root, is marked.
InsertAll_RootOnly(cache, scanned_directories, i, contains_photo) ==
    IF Len(scanned_directories) = 0 THEN cache
    ELSE insert_album_path(cache, scanned_directories[1], contains_photo)

RECURSIVE InsertAll(_, _, _, _)
InsertAll(cache, scanned_directories, i, contains_photo) ==
    IF i > Len(scanned_directories) THEN cache
    ELSE InsertAll(insert_album_path(cache, scanned_directories[i], contains_photo),
                   scanned_directories, i + 1, contains_photo)

\* Faulty variant: the directories listed so far are marked false before returning.
ListingFailed_MarksListed(scanned_directories, st) ==
    [res |-> FALSE, hit |-> FALSE, failed |-> TRUE, leaf |-> {},
     listed |-> scanned_directories,
     st |-> [st EXCEPT !.album_path = InsertAll(@, scanned_directories, 1, FALSE)]]

\* directoryContainsPhotos, lines 204-207: ioutil.ReadDir failed, return false
ListingFailed(scanned_directories, st) ==
    [res |-> FALSE, hit |-> FALSE, failed |-> TRUE, leaf |-> {},
     listed |-> scanned_directories, st |-> st]

\* the result also reports, for the properties, the directories listed, the
\* directory of the matching file, and whether a listing failed
RECURSIVE ProbeLoop(_, _, _, _)
ProbeLoop(scanQueue, scanned_directories, rootPath, st) ==
    IF scanQueue = <<>>
    THEN [res |-> FALSE, hit |-> FALSE, failed |-> FALSE, leaf |-> {},
          listed |-> scanned_directories,
          st |-> [st EXCEPT !.album_path = InsertAll(@, scanned_directories, 1, FALSE)]]
    ELSE LET dirPath == Head(scanQueue)
             scanned == Append(scanned_directories, dirPath)
             st1     == [st EXCEPT !.ls = Put(@, dirPath, Count(@, dirPath) + 1)]
         IN  IF ~CanList(dirPath)
             THEN ListingFailed(scanned, st1)
             ELSE Bind(ProbeItems(ReadDir(dirPath), 1, dirPath, rootPath,
                                  Tail(scanQueue), st1), LAMBDA r :
                      IF r.found
                      THEN [res |-> TRUE, hit |-> FALSE, failed |-> FALSE,
                            leaf |-> {dirPath}, listed |-> scanned, st |-> r.st]
                      ELSE ProbeLoop(r.scanQueue, scanned, rootPath, r.st))

\* Faulty variant: the cache is not consulted, the subtree is searched every time.
directoryContainsPhotos_IgnoresCache(rootPath, st) ==
    ProbeLoop(<<rootPath>>, <<>>, rootPath, st)

directoryContainsPhotos(rootPath, st) ==
    IF album_contains_photo(st.album_path, rootPath) # {}
    THEN [res |-> st.album_path[rootPath], hit |-> TRUE, failed |-> FALSE, leaf |-> {},
          listed |-> <<>>, st |-> st]
    ELSE ProbeLoop(<<rootPath>>, <<>>, rootPath, st)

-----------------------------------------------------------------------------
(* The persistence boundary *)

\* the unique key of table album: one row per owner and path
AlbumKeyTaken(tbl, owner_id, path) ==
    \E a \in tbl : a.owner_id = owner_id /\ a.path = path

\* Faulty variant: a plain INSERT, the row is added whatever the table holds.
InsertAlbum_WithoutIgnore(tbl, id, title, parent_album, owner_id, path) ==
    tbl \cup {[album_id |-> id, title |-> title, parent_album |-> parent_album,
               owner_id |-> owner_id, path |-> path]}

\* Faulty variant: the row is dropped only when the table holds the very same row.
InsertIgnoreAlbum_ComparesWholeRow(tbl, id, title, parent_album, owner_id, path) ==
    IF \E a \in tbl : /\ a.owner_id = owner_id /\ a.path = path
                      /\ a.title = title /\ a.parent_album = parent_album
    THEN tbl
    ELSE tbl \cup {[album_id |-> id, title |-> title, parent_album |-> parent_album,
                    owner_id |-> owner_id, path |-> path]}

\* INSERT IGNORE INTO album (title, parent_album, owner_id, path): the row is
\* dropped when it violates the unique key
InsertIgnoreAlbum(tbl, id, title, parent_album, owner_id, path) ==
    IF AlbumKeyTaken(tbl, owner_id, path)
    THEN tbl
    ELSE tbl \cup {[album_id |-> id, title |-> title, parent_album |-> parent_album,
                    owner_id |-> owner_id, path |-> path]}

\* SELECT album_id FROM album WHERE path = ?   (the rows QueryRow may return)
SelectAlbumIdByPath(tbl, path) == {a.album_id : a \in {x \in tbl : x.path = path}}

\* Faulty variant: the placeholder list is cut one short, the last path visited
\* is not among the excluded ones.
SelectUnusedAlbums_DropsLastPath(tbl, owner_id, scanned_albums) ==
    {a.album_id : a \in {x \in tbl : /\ x.owner_id = owner_id
                                      /\ \A i \in 1 .. Len(scanned_albums) - 1 :
                                            x.path # scanned_albums[i]}}

\* SELECT album_id FROM album WHERE album.owner_id = ? AND path NOT IN (...)
SelectUnusedAlbums(tbl, owner_id, scanned_albums) ==
    {a.album_id : a \in {x \in tbl : /\ x.owner_id = owner_id
                                      /\ \A i \in 1 .. Len(scanned_albums) :
                                            x.path # scanned_albums[i]}}

\* Faulty variant: only the first of the ids is deleted.
DeleteAlbums_OnlyFirst(tbl, ids) ==
    {a \in tbl : a.album_id \notin {i \in ids : \A j \in ids : i <= j}}

\* DELETE FROM album WHERE album_id IN (...)
DeleteAlbums(tbl, ids) == {a \in tbl : a.album_id \notin ids}

\* ProcessImage(tx, photoPath, albumId, content_type), committed: the photo row,
\* and the album's folder of renditions under ./image-cache
ProcessImageRow(photoPath, albumId, content_type) ==
    [path |-> photoPath, album_id |-> albumId, content_type |-> content_type]

-----------------------------------------------------------------------------
(* One scan run *)

IdleRun ==
    [pc |-> "idle", err |-> "none",
     scanQueue |-> <<>>, album_paths_scanned |-> <<>>,
     photo_type |-> EmptyMap, album_path |-> EmptyMap,
     albumPath |-> <<>>, albumId |-> {}, dirContent |-> <<>>, idx |-> 0,
     deleted_ids |-> {}, deleted_albums |-> 0, remove_failed |-> {},
     calls |-> EmptyMap, io |-> EmptyMap, ls |-> EmptyMap, processed |-> <<>>,
     albums0 |-> {}, rescan |-> FALSE,
     nprobes |-> 0, lastProbe |-> [root |-> <<>>, res |-> FALSE, hit |-> FALSE,
                                    failed |-> FALSE, leaf |-> {}, listed |-> <<>>]]

\* Faulty variant: the task is pushed at both ends of the pass over the entries.
PushBack_Twice(scanQueue, path, parentId) ==
    Append(Append(scanQueue, [path |-> path, parentId |-> parentId]),
           [path |-> path, parentId |-> parentId])

\* scanQueue.PushBack(scanInfo{path, parentId})
PushBack(scanQueue, path, parentId) ==
    Append(scanQueue, [path |-> path, parentId |-> parentId])

\* scan(), lines 79-91: empty caches, the root on the queue.  albums0 and rescan
\* remember, for the properties, the album table at the start of the run and
\* whether the run repeats a completed scan of the same tree.
StartedRun(user) ==
    [IdleRun EXCEPT !.pc = "traverse",
                    !.scanQueue = PushBack(<<>>, user.RootPath, {}),
                    !.albums0 = albums,
                    !.rescan = stable]

St(rec) == [photo_type |-> rec.photo_type, album_path |-> rec.album_path,
            calls |-> rec.calls, io |-> rec.io, ls |-> rec.ls]

WithSt(rec, st) == [rec EXCEPT !.photo_type = st.photo_type,
                               !.album_path = st.album_path,
                               !.calls = st.calls, !.io = st.io, !.ls = st.ls]

\* Faulty variant: the error leaves the queue loop (a break) and cleanupCache runs.
Abort_FallsThrough(rec, e) == [rec EXCEPT !.pc = "cleanup", !.err = e]

\* a `return` out of scan() before cleanupCache
Abort(rec, e) == [rec EXCEPT !.pc = "aborted", !.err = e]

NextIdx(dirContent, from, wantDir) ==
    LET S == {i \in from .. Len(dirContent) : dirContent[i].isDir = wantDir}
    IN  IF S = {} THEN 0 ELSE CHOOSE i \in S : \A j \in S : i <= j

\* Move on to the next entry that does something: the two `for ... range
\* dirContent` loops skip directories (line 144) and files (line 171); after the
\* second loop the queue loop of line 93 goes on or ends in cleanupCache.
Settle(rec) ==
    LET f == IF rec.pc = "photos" THEN NextIdx(rec.dirContent, rec.idx, FALSE) ELSE 0
        d == NextIdx(rec.dirContent, IF rec.pc = "photos" THEN 1 ELSE rec.idx, TRUE)
    IN  IF f # 0 THEN [rec EXCEPT !.pc = "photos", !.idx = f]
        ELSE IF d # 0 THEN [rec EXCEPT !.pc = "subalbums", !.idx = d]
        ELSE [rec EXCEPT !.pc = IF rec.scanQueue = <<>> THEN "cleanup" ELSE "traverse",
                         !.idx = 0, !.dirContent = <<>>, !.albumPath = <<>>,
                         !.albumId = {}]

FreeRuns == {i \in Runs : run[i].pc \in {"idle", "done", "aborted"}}

NoActiveRun == FreeRuns = Runs

\* Faulty variant: the lookup error is logged and nil is returned.
ScanUser_SwallowsLookupError(userId) ==
    IF \E u \in UserTable : u.UserID = userId
    THEN LET user == CHOOSE u \in UserTable : u.UserID = userId
             slot == CHOOSE i \in FreeRuns : \A j \in FreeRuns : i <= j
         IN  /\ launched < MaxScans
             /\ FreeRuns # {}
             /\ launched' = launched + 1
             /\ run' = [run EXCEPT ![slot] = StartedRun(user)]
             /\ ret' = [userId |-> userId, err |-> FALSE]
             /\ UNCHANGED <<fs, albums, photos, next_album_id, image_cache, faults,
                            fsChanges, stable>>
    ELSE /\ ret' = [userId |-> userId, err |-> FALSE]
         /\ UNCHANGED <<fs, albums, photos, next_album_id, image_cache, run, launched,
                        faults, fsChanges, stable>>

\* ScanUser(database, userId)
ScanUser(userId) ==
    IF \E u \in UserTable : u.UserID = userId
    THEN LET user == CHOOSE u \in UserTable : u.UserID = userId
             slot == CHOOSE i \in FreeRuns : \A j \in FreeRuns : i <= j
         IN  /\ launched < MaxScans
             /\ FreeRuns # {}
             /\ launched' = launched + 1
             /\ run' = [run EXCEPT ![slot] = StartedRun(user)]
             /\ ret' = [userId |-> userId, err |-> FALSE]
             /\ UNCHANGED <<fs, albums, photos, next_album_id, image_cache, faults,
                            fsChanges, stable>>
    ELSE /\ ret' = [userId |-> userId, err |-> TRUE]
         /\ UNCHANGED <<fs, albums, photos, next_album_id, image_cache, run, launched,
                        faults, fsChanges, stable>>

\* scan(), lines 93-138: take a directory off the queue, list it, upsert its album
ScanAlbum(r) ==
    /\ run[r].pc = "traverse"
    /\ run[r].scanQueue # <<>>
    /\ LET albumInfo     == Head(run[r].scanQueue)
           albumPath     == albumInfo.path
           albumParentId == albumInfo.parentId
           rec1 == [run[r] EXCEPT !.scanQueue = Tail(@),
                                  !.album_paths_scanned = Append(@, albumPath)]
           tbl  == InsertIgnoreAlbum(albums, next_album_id, Base(albumPath),
                                     albumParentId, ScanningUser.UserID, albumPath)
           ids  == SelectAlbumIdByPath(tbl, albumPath)
       IN  IF ~CanList(albumPath)
           THEN /\ run' = [run EXCEPT ![r] = Abort(rec1, "readdir")]
                /\ UNCHANGED <<albums, next_album_id, faults>>
           ELSE \/ /\ faults < MaxFaults
                   /\ faults' = faults + 1
                   /\ run' = [run EXCEPT ![r] = Abort(rec1, "album_tx")]
                   /\ UNCHANGED <<albums, next_album_id>>
                \/ IF ids = {}
                   THEN /\ run' = [run EXCEPT ![r] = Abort(rec1, "album_tx")]
                        /\ UNCHANGED <<albums, next_album_id, faults>>
                   ELSE \E albumId \in ids :
                          /\ albums' = tbl
                          /\ next_album_id' = IF tbl = albums THEN next_album_id
                                              ELSE next_album_id + 1
                          /\ run' = [run EXCEPT ![r] =
                                       Settle([rec1 EXCEPT !.albumPath = albumPath,
                                                           !.albumId = {albumId},
                                                           !.dirContent = ReadDir(albumPath),
                                                           !.pc = "photos",
                                                           !.idx = 1])]
                          /\ UNCHANGED faults
    /\ UNCHANGED <<fs, photos, image_cache, launched, ret, fsChanges, stable>>

\* scan(), lines 141-165: one file of the directory
ScanPhoto(r) ==
    /\ run[r].pc = "photos"
    /\ LET item      == run[r].dirContent[run[r].idx]
           photoPath == Join(run[r].albumPath, item.name)
       IN
       \E c \in {isPathImage(photoPath, St(run[r]))} :
       LET rec1      == WithSt(run[r], c.st)
           albumId   == CHOOSE i \in run[r].albumId : TRUE
           content_type == get_photo_type(rec1.photo_type, photoPath)
           called(ct) == [rec1 EXCEPT !.processed =
                            Append(@, ProcessImageRow(photoPath, albumId, ct))]
           goOn(rec)  == Settle([rec EXCEPT !.pc = "photos", !.idx = @ + 1])
       IN  IF ~c.res
           THEN /\ run' = [run EXCEPT ![r] = goOn(rec1)]
                /\ UNCHANGED <<photos, image_cache, faults>>
           ELSE \/ /\ faults < MaxFaults
                   /\ faults' = faults + 1
                   /\ run' = [run EXCEPT ![r] = Abort(rec1, "photo_begin")]
                   /\ UNCHANGED <<photos, image_cache>>
                \/ IF content_type = {}
                   THEN /\ run' = [run EXCEPT ![r] = Abort(rec1, "content_type")]
                        /\ UNCHANGED <<photos, image_cache, faults>>
                   ELSE LET ct == CHOOSE t \in content_type : TRUE
                        IN  \/ /\ faults < MaxFaults
                               /\ faults' = faults + 1
                               /\ run' = [run EXCEPT ![r] =
                                            Abort(called(ct), "process_image")]
                               /\ UNCHANGED <<photos, image_cache>>
                            \/ /\ photos' = photos \cup
                                              {ProcessImageRow(photoPath, albumId, ct)}
                               /\ image_cache' = image_cache \cup {albumId}
                               /\ run' = [run EXCEPT ![r] = goOn(called(ct))]
                               /\ UNCHANGED faults
                            \/ /\ faults < MaxFaults
                               /\ faults' = faults + 1
                               /\ run' = [run EXCEPT ![r] = goOn(called(ct))]
                               /\ UNCHANGED <<photos, image_cache>>
    /\ UNCHANGED <<fs, albums, next_album_id, launched, ret, fsChanges, stable>>

\* scan(), lines 168-177: one subdirectory of the directory
ScanSubalbum(r) ==
    /\ run[r].pc = "subalbums"
    /\ LET item         == run[r].dirContent[run[r].idx]
           subalbumPath == Join(run[r].albumPath, item.name)
       IN
       \E p \in {directoryContainsPhotos(subalbumPath, St(run[r]))} :
       LET rec1 == [WithSt(run[r], p.st) EXCEPT
                      !.nprobes = @ + 1,
                      !.lastProbe = [root |-> subalbumPath, res |-> p.res, hit |-> p.hit,
                                     failed |-> p.failed, leaf |-> p.leaf,
                                     listed |-> p.listed]]
           rec2 == IF p.res
                   THEN [rec1 EXCEPT !.scanQueue =
                           PushBack(@, subalbumPath, run[r].albumId)]
                   ELSE rec1
       IN  run' = [run EXCEPT ![r] = Settle([rec2 EXCEPT !.idx = @ + 1])]
    /\ UNCHANGED <<fs, albums, photos, next_album_id, image_cache, launched, ret, faults,
                   fsChanges, stable>>

\* Faulty variant: the count is the number of rows selected for deletion.
CountRemoved_CountsRows(ids, failing) == Cardinality(ids)

\* cleanupCache(), lines 294-306: deleted_albums++ only when os.RemoveAll succeeded
CountRemoved(ids, failing) == Cardinality(ids \ failing)

\* cleanupCache(), lines 279-307: select the unused albums, remove their folders.
\* remove_failed remembers, for the properties, the folders os.RemoveAll kept.
CleanupQuery(r) ==
    /\ run[r].pc = "cleanup"
    /\ LET scanned_albums == run[r].album_paths_scanned
           unused == SelectUnusedAlbums(albums, ScanningUser.UserID, scanned_albums)
       IN  IF Len(scanned_albums) = 0
           THEN /\ run' = [run EXCEPT ![r].pc = "done"]
                /\ UNCHANGED <<image_cache, faults, stable>>
           ELSE \/ /\ faults < MaxFaults
                   /\ faults' = faults + 1
                   /\ run' = [run EXCEPT ![r].pc = "done", ![r].err = "cleanup_query"]
                   /\ UNCHANGED <<image_cache, stable>>
                \/ \E failing \in SUBSET unused :
                      /\ faults + Cardinality(failing) <= MaxFaults
                      /\ faults' = faults + Cardinality(failing)
                      /\ image_cache' = image_cache \ (unused \ failing)
                      /\ run' = [run EXCEPT
                                   ![r].deleted_ids = unused,
                                   ![r].deleted_albums = CountRemoved(unused, failing),
                                   ![r].remove_failed = failing,
                                   ![r].pc = IF unused = {} THEN "done" ELSE "delete"]
                      /\ stable' = IF unused = {} THEN TRUE ELSE stable
    /\ UNCHANGED <<fs, albums, photos, next_album_id, launched, ret, fsChanges>>

\* cleanupCache(), lines 309-316: delete the selected albums in one statement
CleanupDelete(r) ==
    /\ run[r].pc = "delete"
    /\ \/ /\ faults < MaxFaults
          /\ faults' = faults + 1
          /\ run' = [run EXCEPT ![r].pc = "done", ![r].err = "cleanup_delete"]
          /\ UNCHANGED <<albums, stable>>
       \/ /\ albums' = DeleteAlbums(albums, run[r].deleted_ids)
          /\ run' = [run EXCEPT ![r].pc = "done"]
          /\ stable' = TRUE
          /\ UNCHANGED faults
    /\ UNCHANGED <<fs, photos, next_album_id, image_cache, launched, ret, fsChanges>>

-----------------------------------------------------------------------------
(* The environment: the filesystem changes between two scans *)

RemoveDir(d) ==
    [fs EXCEPT !.dirs = {x \in @ : ~IsUnder(x, d)},
               !.unreadable = {x \in @ : ~IsUnder(x, d)},
               !.files = [x \in Dirs |-> IF IsUnder(x, d) THEN "none" ELSE @[x]]]

MakeUnreadable(d) == [fs EXCEPT !.unreadable = @ \cup {d}]

RemoveFile(d) == [fs EXCEPT !.files[d] = "none"]

FsChange ==
    /\ NoActiveRun
    /\ 0 < launched /\ launched < MaxScans
    /\ fsChanges < MaxFsChanges
    /\ fsChanges' = fsChanges + 1
    /\ stable' = FALSE
    /\ \E d \in fs.dirs :
          \/ d # Root /\ fs' = RemoveDir(d)
          \/ d \notin fs.unreadable /\ fs' = MakeUnreadable(d)
          \/ fs.files[d] # "none" /\ fs' = RemoveFile(d)
    /\ UNCHANGED <<albums, photos, next_album_id, image_cache, run, launched, ret, faults>>

-----------------------------------------------------------------------------
(* Specifications *)

\* The album table before the first scan of the model.  Another user, whose
\* root is the same directory, owns an album of it.  In PriorScan the scanning
\* user has scanned before, when the root held a directory r/b with a photo,
\* removed since: the albums of r and r/b, the photo and its folder are there.
NoPriorScan ==
    [albums |-> {[album_id |-> 1, title |-> Base(OtherUser.RootPath), parent_album |-> {},
                  owner_id |-> OtherUser.UserID, path |-> OtherUser.RootPath]},
     photos |-> {},
     next_album_id |-> 2,
     image_cache |-> {}]

PriorScan ==
    [albums |-> NoPriorScan.albums \cup
                {[album_id |-> 2, title |-> Base(Root), parent_album |-> {},
                  owner_id |-> ScanningUser.UserID, path |-> Root],
                 [album_id |-> 3, title |-> "b", parent_album |-> {2},
                  owner_id |-> ScanningUser.UserID, path |-> Join(Root, "b")]},
     photos |-> {ProcessImageRow(Join(Join(Root, "b"), FileName), 3, "image/jpeg")},
     next_album_id |-> 4,
     image_cache |-> {3}]

\* the tree with at most MaxMarks directories holding a file of one of `kinds`
\* or (when `locks`) being unreadable, and one of the album tables `priors`
InitWith(kinds, locks, priors) ==
    /\ \E marked \in SUBSET Dirs :
          /\ Cardinality(marked) <= MaxMarks
          /\ \E m \in [marked -> kinds \cup (IF locks THEN {"unreadable"} ELSE {})] :
                fs = [dirs       |-> Dirs,
                      unreadable |-> {d \in marked : m[d] = "unreadable"},
                      files      |-> [d \in Dirs |->
                                        IF d \in marked /\ m[d] # "unreadable"
                                        THEN m[d] ELSE "none"]]
    /\ \E db \in priors :
          /\ albums = db.albums
          /\ photos = db.photos
          /\ next_album_id = db.next_album_id
          /\ image_cache = db.image_cache
    /\ run = [i \in Runs |-> IdleRun]
    /\ launched = 0
    /\ ret = [userId |-> "", err |-> FALSE]
    /\ faults = 0
    /\ fsChanges = 0
    /\ stable = FALSE

Init == InitWith(FileKinds, TRUE, {NoPriorScan, PriorScan})

Step ==
    \E r \in Runs :
        \/ ScanAlbum(r)
        \/ ScanPhoto(r)
        \/ ScanSubalbum(r)
        \/ CleanupQuery(r)
        \/ CleanupDelete(r)

\* one scan of one tree
Next ==
    \/ \E userId \in UserIds : launched = 0 /\ ScanUser(userId)
    \/ Step

Spec == Init /\ [][Next]_vars

\* scans one after the other, the tree changing between them
InitRescan == InitWith({"image/jpeg"}, FALSE, {NoPriorScan})

NextRescan ==
    \/ NoActiveRun /\ ScanUser(ScanningUser.UserID)
    \/ FsChange
    \/ Step

SpecRescan == InitRescan /\ [][NextRescan]_vars

\* scans of the same user started while earlier ones are still running, over
\* a tree that does not change and can be read everywhere
InitOverlap == InitWith({"image/jpeg"}, FALSE, {NoPriorScan, PriorScan})

NextOverlap ==
    \/ ScanUser(ScanningUser.UserID)
    \/ Step

SpecOverlap == InitOverlap /\ [][NextOverlap]_vars

\* one scan of one tree, the goroutine of the scan being scheduled as long as
\* it has a statement to run
SpecFair == Init /\ [][Next]_vars /\ WF_vars(Step)

-----------------------------------------------------------------------------
(* What the properties speak about *)

SupportedSet == {SupportedMimetypes[i] : i \in 1 .. Len(SupportedMimetypes)}

\* d is on disk and directly holds a file of a supported type
HoldsPhoto(d) == d \in fs.dirs /\ fs.files[d] \in SupportedSet

\* d or a directory below it holds one
ContainsPhoto(d) == \E x \in fs.dirs : IsUnder(x, d) /\ HoldsPhoto(x)

\* every directory can be listed and every file opened and read
FullyReadable ==
    /\ fs.unreadable = {}
    /\ \A d \in Dirs : fs.files[d] \notin {"unopenable", "empty"}

OwnerAlbums == {a \in albums : a.owner_id = ScanningUser.UserID}

AlbumPaths(tbl) == {a.path : a \in tbl}

Scanned(r) == {run[r].album_paths_scanned[i] : i \in 1 .. Len(run[r].album_paths_scanned)}

\* the queue drained and cleanupCache ran all its statements
Completed(r) == run[r].pc = "done" /\ run[r].err = "none"

FilePath(d) == Join(d, FileName)

\* run r is between its start and its end
Active(r) == run[r].pc \notin {"idle", "done", "aborted"}

-----------------------------------------------------------------------------
(* C1 *)

\* C1: after a completed scan every directory at or under the root that
\* contains a supported image has an album of the scanning user, whose
\* parent_album is the id of that user's album of the parent directory (nil
\* for the root).  Stated for trees that are fully readable.
C1_AlbumOfEveryPhotoDirectory ==
    \A r \in Runs :
        Completed(r) /\ FullyReadable =>
            \A D \in fs.dirs :
                ContainsPhoto(D) =>
                    \E a \in OwnerAlbums :
                        /\ a.path = D
                        /\ a.parent_album =
                              IF D = Root THEN {}
                              ELSE {p.album_id : p \in {x \in OwnerAlbums : x.path = Dir(D)}}

-----------------------------------------------------------------------------
(* C2 *)

\* C2: after a completed scan the paths of the scanning user's albums are
\* exactly the paths the run visited.
C2_AlbumsAreTheVisitedPaths ==
    \A r \in Runs : Completed(r) => AlbumPaths(OwnerAlbums) = Scanned(r)

\* a completed run that visited several directories and deleted a stale album
C2_Witness ==
    \E r \in Runs :
        /\ Completed(r)
        /\ Cardinality(Scanned(r)) >= 3
        /\ run[r].deleted_ids # {}
        /\ \A a \in albums : a.album_id \notin run[r].deleted_ids

-----------------------------------------------------------------------------
(* C3 *)

\* C3: cleanupCache deletes an album only when its directory is gone: no step
\* deletes an album whose directory is on disk.  Stated for directories that
\* also still contain a supported image, so that only a directory the scan had
\* every reason to keep can violate it.
C3_KeepsAlbumsOfDirectoriesOnDisk ==
    [][\A a \in albums :
          a \notin albums' => ~(a.path \in fs.dirs /\ ContainsPhoto(a.path))]_vars

-----------------------------------------------------------------------------
(* C4 *)

\* C4: a scan that completes after a completed scan, the tree unchanged in
\* between, leaves the album table as it found it: same rows, same ids, same
\* parents, nothing added, nothing deleted.
C4_RescanChangesNoAlbum ==
    \A r \in Runs : Completed(r) /\ run[r].rescan => albums = run[r].albums0

\* a completed rescan of a tree with several albums
C4_Witness ==
    \E r \in Runs :
        /\ Completed(r)
        /\ run[r].rescan
        /\ Cardinality(Scanned(r)) >= 3
        /\ Cardinality(OwnerAlbums) >= 3

-----------------------------------------------------------------------------
(* C5 *)

\* the last probe of run r searched its whole subtree and found nothing
ExhaustiveMiss(r) ==
    /\ run[r].nprobes > 0
    /\ ~run[r].lastProbe.res
    /\ ~run[r].lastProbe.hit
    /\ ~run[r].lastProbe.failed

\* ... and every directory it listed is marked false
MissIsCached(r) ==
    ExhaustiveMiss(r) =>
        \A i \in 1 .. Len(run[r].lastProbe.listed) :
            /\ run[r].lastProbe.listed[i] \in DOMAIN run[r].album_path
            /\ ~run[r].album_path[run[r].lastProbe.listed[i]]

\* the albums run r has inserted
CreatedBy(r) == IF run[r].pc = "idle" THEN {} ELSE albums \ run[r].albums0

\* C5 as stated: no directory without a supported image in its subtree, the
\* root included, gets an album from a scan, and an exhaustive unsuccessful
\* probe marks every directory it listed false.
C5_NoAlbumWithoutPhotoRootIncluded ==
    \A r \in Runs :
        /\ \A a \in CreatedBy(r) : ContainsPhoto(a.path)
        /\ MissIsCached(r)

\* C5 amended: the same for every directory other than the user's root, which
\* is visited and given an album whether it contains a photo or not.
C5_NoAlbumWithoutPhotoBelowRoot ==
    \A r \in Runs :
        /\ \A a \in CreatedBy(r) : a.path # Root => ContainsPhoto(a.path)
        /\ MissIsCached(r)

\* a completed scan whose last probe listed several directories in vain, none
\* of which has an album
C5_Witness ==
    \E r \in Runs :
        /\ Completed(r)
        /\ ExhaustiveMiss(r)
        /\ Len(run[r].lastProbe.listed) >= 2
        /\ \A i \in 1 .. Len(run[r].lastProbe.listed) :
              run[r].lastProbe.listed[i] \notin AlbumPaths(OwnerAlbums)

-----------------------------------------------------------------------------
(* C6 *)

\* C6: after an uncached probe of R that found its first image in L, L is the
\* last directory listed and the cache holds true for L, for every directory
\* between L and R, and for R.
C6_HitMarksLeafUpToProbeRoot ==
    \A r \in Runs :
        run[r].nprobes > 0 /\ run[r].lastProbe.res /\ ~run[r].lastProbe.hit =>
            LET R == run[r].lastProbe.root
                L == CHOOSE l \in run[r].lastProbe.leaf : TRUE
                listed == run[r].lastProbe.listed
            IN  /\ listed[Len(listed)] = L
                /\ \A d \in Dirs :
                      IsUnder(L, d) /\ IsUnder(d, R) =>
                          d \in DOMAIN run[r].album_path /\ run[r].album_path[d]

-----------------------------------------------------------------------------
(* C7 *)

FatalErrors == {"readdir", "album_tx", "photo_begin", "content_type", "process_image"}

\* C7: the step in which a run meets a fatal error changes no album, photo or
\* cache folder; the run is then stopped for good: it takes no further step,
\* and it has not run and never runs cleanupCache.
C7_FatalErrorStopsTheRun ==
    [][\A r \in Runs :
          run'[r].err \in FatalErrors =>
              /\ run'[r].pc = "aborted"
              /\ run'[r].deleted_ids = {}
              /\ run'[r].deleted_albums = 0
              /\ IF run[r].err \in FatalErrors
                 THEN run'[r] = run[r]
                 ELSE /\ albums' = albums
                      /\ photos' = photos
                      /\ image_cache' = image_cache]_vars

\* a run stopped by ProcessImage in its second directory, with an album of the
\* owner left in the table that cleanupCache would have deleted
C7_Witness ==
    \E r \in Runs :
        /\ run[r].pc = "aborted"
        /\ run[r].err = "process_image"
        /\ Cardinality(Scanned(r)) >= 2
        /\ \E a \in OwnerAlbums : a.path \notin Scanned(r)

-----------------------------------------------------------------------------
(* C8 *)

\* C8: a ScanUser call returns an error exactly when the id is not in the user
\* table, and then starts nothing; otherwise it starts exactly one run, which
\* at the return has visited nothing, and no album or photo has changed.
C8_ScanUserStartsOneRunOrFails ==
    [][(ret' # ret \/ launched' # launched) =>
          /\ ret'.err = ~(\E u \in UserTable : u.UserID = ret'.userId)
          /\ albums' = albums
          /\ photos' = photos
          /\ IF ret'.err
             THEN launched' = launched /\ run' = run
             ELSE /\ launched' = launched + 1
                  /\ \E s \in Runs :
                        /\ \A o \in Runs \ {s} : run'[o] = run[o]
                        /\ run[s].pc \in {"idle", "done", "aborted"}
                        /\ run'[s].pc = "traverse"
                        /\ run'[s].album_paths_scanned = <<>>
                        /\ Len(run'[s].scanQueue) = 1
                        /\ \E u \in UserTable :
                              /\ u.UserID = ret'.userId
                              /\ run'[s].scanQueue[1].path = u.RootPath]_vars

\* ScanUser has returned nil and the run it started has not visited anything
C8_Witness ==
    /\ launched = 1
    /\ ~ret.err
    /\ ret.userId = ScanningUser.UserID
    /\ \E s \in Runs : run[s].pc = "traverse" /\ run[s].album_paths_scanned = <<>>

-----------------------------------------------------------------------------
(* C9 *)

\* C9: a file that is not of a supported type, or cannot be opened or read, is
\* never in the photo_type cache, never passed to ProcessImage, and never the
\* file that makes a probe return true.
C9_UnsupportedFilesAreRejected ==
    \A r \in Runs : \A d \in Dirs :
        fs.files[d] \notin SupportedSet =>
            /\ FilePath(d) \notin DOMAIN run[r].photo_type
            /\ \A i \in 1 .. Len(run[r].processed) : run[r].processed[i].path # FilePath(d)
            /\ \A ph \in photos \ PriorScan.photos : ph.path # FilePath(d)
            /\ ~(run[r].nprobes > 0 /\ run[r].lastProbe.res /\ run[r].lastProbe.leaf = {d})

\* a completed scan that classified a GIF twice, in a probe and in the photo loop
C9_Witness ==
    \E r \in Runs : \E d \in Dirs :
        /\ Completed(r)
        /\ fs.files[d] = "image/gif"
        /\ Count(run[r].calls, FilePath(d)) >= 2

-----------------------------------------------------------------------------
(* C10 *)

\* C10 as stated: within one run no file is opened and read more than once,
\* whatever the verdict of the first classification.
C10_EveryFileIsReadAtMostOnce ==
    \A r \in Runs : \A d \in Dirs : Count(run[r].io, FilePath(d)) <= 1

\* C10 amended: a file classified as a supported image is opened and read once,
\* all later calls being answered from the cache; a file whose classification
\* was false is not cached and is opened and read again by every call.
C10_OnlyPositiveVerdictsAreCached ==
    \A r \in Runs : \A f \in DOMAIN run[r].calls :
        IF f \in DOMAIN run[r].photo_type
        THEN Count(run[r].io, f) = 1
        ELSE Count(run[r].io, f) = run[r].calls[f]

\* a supported image classified twice in one run
C10_Witness ==
    \E r \in Runs : \E f \in DOMAIN run[r].photo_type : run[r].calls[f] >= 2

-----------------------------------------------------------------------------
(* C11 *)

\* C11: a folder that os.RemoveAll could not remove does not stop cleanupCache:
\* every album selected as unused is deleted, the one whose folder is left
\* included, and the count reported is the number of folders removed, not the
\* number of rows deleted.
C11_RemovalFailureKeepsDeleting ==
    \A r \in Runs :
        /\ run[r].pc \in {"delete", "done"} =>
              /\ run[r].remove_failed \subseteq run[r].deleted_ids
              /\ run[r].deleted_albums =
                    Cardinality(run[r].deleted_ids) - Cardinality(run[r].remove_failed)
        /\ Completed(r) =>
              \A a \in albums : a.album_id \notin run[r].deleted_ids

\* a completed cleanup that deleted several albums, one folder not removed
C11_Witness ==
    \E r \in Runs :
        /\ Completed(r)
        /\ Cardinality(run[r].deleted_ids) >= 2
        /\ run[r].remove_failed # {}
        /\ run[r].deleted_albums < Cardinality(run[r].deleted_ids)

-----------------------------------------------------------------------------
(* C12 *)

\* C12 as stated: within one run no directory is listed by
\* directoryContainsPhotos more than once.
C12_EachDirectoryListedAtMostOnce ==
    \A r \in Runs : \A d \in Dirs : Count(run[r].ls, d) <= 1

\* C12 amended: a directory that has an entry in the album_path cache is not
\* listed by any later probe of the run, and one probe lists a directory at
\* most once.  (A directory listed by a probe that ended with a hit in another
\* directory, or with a listing failure, has no entry and can be listed again.)
C12_CachedDirectoriesAreNotListedAgain ==
    [][\A r \in Runs : \A d \in Dirs :
          Active(r) =>
              /\ Count(run'[r].ls, d) <= Count(run[r].ls, d) + 1
              /\ d \in DOMAIN run[r].album_path =>
                    Count(run'[r].ls, d) = Count(run[r].ls, d)]_vars

\* a probe answered from the cache for a directory listed once, in a run that
\* listed another directory twice
C12_Witness ==
    \E r \in Runs :
        /\ run[r].nprobes > 0
        /\ run[r].lastProbe.hit
        /\ Count(run[r].ls, run[r].lastProbe.root) = 1
        /\ \E d \in Dirs : Count(run[r].ls, d) >= 2

-----------------------------------------------------------------------------
(* C13 *)

\* the ids of the scanning user's albums of directory d
OwnerAlbumIds(d) == {a.album_id : a \in {x \in OwnerAlbums : x.path = d}}

\* C13: the album id a run holds for the directory it is visiting, the
\* parentId of every task on its queue, and the album id of every photo it has
\* passed to ProcessImage, are ids of albums of the scanning user with the
\* path of that directory, also when another user has an album of that path.
C13_ResolvedAlbumIdIsTheOwners ==
    \A r \in Runs :
        Active(r) =>
            /\ run[r].albumId \subseteq OwnerAlbumIds(run[r].albumPath)
            /\ \A i \in 1 .. Len(run[r].scanQueue) :
                  run[r].scanQueue[i].parentId \subseteq
                      OwnerAlbumIds(Dir(run[r].scanQueue[i].path))
            /\ \A i \in 1 .. Len(run[r].processed) :
                  run[r].processed[i].album_id \in
                      OwnerAlbumIds(Dir(run[r].processed[i].path))

-----------------------------------------------------------------------------
(* C14 *)

\* the calls of ProcessImage run r has made for the file of directory d
Handed(r, d) == {i \in 1 .. Len(run[r].processed) : run[r].processed[i].path = FilePath(d)}

\* C14: in a completed run every supported image that lies directly in a
\* visited directory has been passed to ProcessImage exactly once, with the id
\* of the scanning user's album of that directory and the content type the
\* photo_type cache holds for it; no file of a directory that was not visited
\* has been passed.
C14_EveryPhotoHandedOverOnce ==
    \A r \in Runs :
        Completed(r) =>
            \A d \in Dirs :
                IF d \in Scanned(r) /\ HoldsPhoto(d)
                THEN /\ Cardinality(Handed(r, d)) = 1
                     /\ \A i \in Handed(r, d) :
                           /\ run[r].processed[i].album_id \in OwnerAlbumIds(d)
                           /\ get_photo_type(run[r].photo_type, FilePath(d)) =
                                 {run[r].processed[i].content_type}
                ELSE Handed(r, d) = {}

-----------------------------------------------------------------------------
(* C15 *)

\* C15: a probe in which a directory listing fails returns false and leaves the
\* album_path cache as it was before the probe; the run is not aborted by it:
\* it records no error and goes on, without enqueuing the directory probed.
C15_FailedProbeLeavesCacheAlone ==
    [][\A r \in Runs :
          /\ Active(r)
          /\ run'[r].nprobes = run[r].nprobes + 1
          /\ run'[r].lastProbe.failed
          => /\ ~run'[r].lastProbe.res
             /\ run'[r].album_path = run[r].album_path
             /\ run'[r].scanQueue = run[r].scanQueue
             /\ run'[r].err = "none"
             /\ run'[r].pc # "aborted"]_vars

\* a completed run whose last probe failed on the second directory it listed
C15_Witness ==
    \E r \in Runs :
        /\ Completed(r)
        /\ run[r].nprobes > 0
        /\ run[r].lastProbe.failed
        /\ Len(run[r].lastProbe.listed) >= 2

-----------------------------------------------------------------------------
(* C16 *)

\* the paths of the tasks on the queue of run r
Queued(r) == {run[r].scanQueue[i].path : i \in 1 .. Len(run[r].scanQueue)}

\* no path is twice on the queue, twice among the visited paths, or both on the
\* queue and visited: a task is dequeued once and no path is enqueued twice
NoPathTwice(r) ==
    /\ Cardinality(Queued(r)) = Len(run[r].scanQueue)
    /\ Cardinality(Scanned(r)) = Len(run[r].album_paths_scanned)
    /\ Queued(r) \cap Scanned(r) = {}

\* C16: a run that has started ends, with its queue empty or by a fatal error,
\* and at no point has a path been enqueued or visited twice.
C16_ScanTerminates ==
    /\ [](\A r \in Runs :
            /\ NoPathTwice(r)
            /\ run[r].pc \in {"cleanup", "delete", "done"} => run[r].scanQueue = <<>>)
    /\ \A r \in Runs :
          (run[r].pc = "traverse") ~> (run[r].pc \in {"done", "aborted"})

\* a run that ended with an empty queue after visiting four directories
C16_Witness ==
    \E r \in Runs :
        /\ Completed(r)
        /\ run[r].scanQueue = <<>>
        /\ Len(run[r].album_paths_scanned) >= 3

-----------------------------------------------------------------------------
(* C17 *)

\* C17: whenever isPathImage has returned true for a path (the photo loop then
\* calls ProcessImage, a probe then returns true for the directory of the
\* file), the photo_type cache holds a content type for the path; while the run
\* goes on no entry is removed or changed; and no run ever stops because the
\* content type was missing from the cache.
C17_PositiveVerdictIsCached ==
    [][\A r \in Runs :
          /\ run'[r].err # "content_type"
          /\ \A i \in 1 .. Len(run'[r].processed) :
                get_photo_type(run'[r].photo_type, run'[r].processed[i].path) =
                    {run'[r].processed[i].content_type}
          /\ (run'[r].nprobes > 0 /\ run'[r].lastProbe.res /\ ~run'[r].lastProbe.hit) =>
                \A d \in run'[r].lastProbe.leaf :
                    get_photo_type(run'[r].photo_type, FilePath(d)) # {}
          /\ Active(r) =>
                \A f \in DOMAIN run[r].photo_type :
                    get_photo_type(run'[r].photo_type, f) = {run[r].photo_type[f]}]_vars

\* a completed run that classified a file in a probe and again in the photo
\* loop, and passed it to ProcessImage
C17_Witness ==
    \E r \in Runs :
        /\ Completed(r)
        /\ \E i \in 1 .. Len(run[r].processed) :
              Count(run[r].calls, run[r].processed[i].path) >= 2

-----------------------------------------------------------------------------
(* C18 *)

\* C18: the tree not changing during the run, every entry of the album_path
\* cache tells the truth: true only for a directory whose subtree holds a
\* supported image, false only for one whose subtree holds none; and while the
\* run goes on no entry is removed or replaced by the opposite verdict.
C18_ContainmentCacheIsSound ==
    [][\A r \in Runs :
          /\ \A d \in DOMAIN run'[r].album_path :
                run'[r].album_path[d] = ContainsPhoto(d)
          /\ Active(r) =>
                \A d \in DOMAIN run[r].album_path :
                    album_contains_photo(run'[r].album_path, d) = {run[r].album_path[d]}]_vars

\* a run whose cache holds a true and a false entry, and whose last probe was
\* answered from the cache
C18_Witness ==
    \E r \in Runs :
        /\ \E d \in DOMAIN run[r].album_path : run[r].album_path[d]
        /\ \E d \in DOMAIN run[r].album_path : ~run[r].album_path[d]
        /\ run[r].nprobes > 0
        /\ run[r].lastProbe.hit

-----------------------------------------------------------------------------
(* C19 *)

\* the directories from the root down to the parent of p
AncestorsOf(p) == {d \in Dirs : IsUnder(d, Root) /\ IsUnder(p, d) /\ d # p}

\* every album of the scanning user that has a parent refers to a row of the
\* table whose path is the parent directory of its own path
WellFormed(tbl) ==
    \A a \in tbl :
        a.owner_id = ScanningUser.UserID /\ a.parent_album # {} =>
            \E b \in tbl : b.album_id \in a.parent_album /\ b.path = Dir(a.path)

\* C19: over the scans of one user, one after the other: when an album row or
\* a photo of a directory is written, the scanning user's albums of all the
\* directories above it, up to the root, are already in the table; and when a
\* scan has completed, every remaining album with a parent refers to a
\* remaining album whose path is its parent directory.
C19_AlbumTreeStaysWellFormed ==
    [][/\ \A a \in albums' \ albums :
             \A d \in AncestorsOf(a.path) : OwnerAlbumIds(d) # {}
       /\ \A ph \in photos' \ photos :
             \A d \in AncestorsOf(Dir(ph.path)) : OwnerAlbumIds(d) # {}
       /\ \A r \in Runs :
             run'[r].pc = "done" /\ run'[r].err = "none" => WellFormed(albums')]_vars

\* a completed scan that deleted the albums of a removed directory and left
\* albums two levels below the root
C19_Witness ==
    \E r \in Runs :
        /\ Completed(r)
        /\ run[r].deleted_ids # {}
        /\ \E a \in OwnerAlbums : Len(a.path) >= 3 /\ a.parent_album # {}

-----------------------------------------------------------------------------
(* C20 *)

\* an album without its id: its owner, path and title, and the paths of the
\* rows its parent_album refers to
Shape(a, tbl) ==
    [owner_id |-> a.owner_id, path |-> a.path, title |-> a.title,
     parent |-> {b.path : b \in {x \in tbl : x.album_id \in a.parent_album}}]

\* the albums of the scanning user after one scan of the tree: the root and
\* every directory that contains a supported image, each under its parent
SingleScanAlbums ==
    {[owner_id |-> ScanningUser.UserID, path |-> d, title |-> Base(d),
      parent |-> IF d = Root THEN {} ELSE {Dir(d)}] :
        d \in {x \in fs.dirs : x = Root \/ ContainsPhoto(x)}}

\* C20: however the steps of overlapping scans of one user interleave, the
\* tree unchanged and readable: no owner and path ever have two album rows; no
\* step deletes an album of a directory of the tree; and once the scans have
\* ended, one of them at least to completion, the scanning user's albums are
\* those a single scan leaves.
C20_OverlappingScansAgree ==
    [][/\ \A a, b \in albums' :
             a.owner_id = b.owner_id /\ a.path = b.path => a = b
       /\ \A a \in albums \ albums' : a.path \notin fs.dirs
       /\ (\A r \in Runs : ~Active(r)') /\ (\E r \in Runs : Completed(r)') =>
             {Shape(a, albums') : a \in OwnerAlbums'} = SingleScanAlbums']_vars

\* two scans have completed, the second started while the first had created
\* some of the albums and not yet all of them
C20_Witness ==
    /\ \A r \in Runs : Completed(r)
    /\ \E r \in Runs :
          /\ Cardinality(run[r].albums0) > Cardinality(NoPriorScan.albums)
          /\ Cardinality(albums) > Cardinality(run[r].albums0)
          /\ run[r].albums0 \subseteq albums
    /\ Cardinality(OwnerAlbums) >= 3

====
